---- MODULE Spec2Model ----
(***************************************************************************)
(* Model of llm/sanitize.py: the Unicode sanitizing filter                 *)
(* (sanitize_unicode), the structure walker (sanitize_dict) and the        *)
(* module-level cache of the LLM_SANITIZE_STRICT environment variable.     *)
(*                                                                         *)
(* A text is a sequence of code points (Python's str is a sequence of      *)
(* scalar values, ord(c) is the element).  Python values are records       *)
(* [kind, val]; lists, tuples and dicts live on a heap and are reached     *)
(* through references, so that object identity and mutation are visible.   *)
(***************************************************************************)
EXTENDS Integers, Sequences, FiniteSets, TLC

VARIABLES
    environ,            \* os.environ's entry for LLM_SANITIZE_STRICT
    loaded,             \* whether llm.sanitize has been imported
    _STRICT_MODE_ENV,   \* the module global set at import
    env_at_load,        \* history: environ as it was when the module was imported
    heap,               \* the containers (list, tuple, dict) allocated so far
    last                \* the last call: its arguments, its outcome, and as
                        \* history the heap (pre) and environ (env) it started from

vars == <<environ, loaded, _STRICT_MODE_ENV, env_at_load, heap, last>>

----------------------------------------------------------------------------
(* Bounds of the model *)

\* longest text drawn as an argument of sanitize_unicode
MaxLen == 3

\* most heap nodes (containers plus their item slots) the caller builds
MaxNodes == 5

----------------------------------------------------------------------------
(* Python values *)

NoneVal == [kind |-> "none", val |-> <<>>]
IntVal(n) == [kind |-> "int", val |-> <<n>>]
StrVal(s) == [kind |-> "str", val |-> s]
Ref(i) == [kind |-> "ref", val |-> <<i>>]

\* the outcome of a call: a returned value, or an exception
Return(v) == [raised |-> FALSE, ret |-> v]
Raise == [raised |-> TRUE, ret |-> NoneVal]

----------------------------------------------------------------------------
(* Module constants, sanitize.py lines 16-49 *)

\* range(0xE0000, 0xE007F): the end of the range taken as inclusive
TAG_RANGE_without_last == \hE0000 .. (\hE007F - 1)

_TAG_RANGE == \hE0000 .. ((\hE007F + 1) - 1)

_ALWAYS_REMOVE == _TAG_RANGE

_ZERO_WIDTH == {\h200B, \h200C, \h200D, \hFEFF}

_BIDI == {\h202A, \h202B, \h202C, \h202D, \h202E,
          \h2066, \h2067, \h2068, \h2069}

\* the strict set built from the conditional characters alone
STRICT_REMOVE_conditional_only == _ZERO_WIDTH \cup _BIDI

_STRICT_REMOVE == _ALWAYS_REMOVE \cup _ZERO_WIDTH \cup _BIDI

----------------------------------------------------------------------------
(* The environment variable and its cache, sanitize.py line 52 *)

\* an environment entry: absent, or present with a value (a text)
Unset == [present |-> FALSE, val |-> <<>>]
EnvSet(s) == [present |-> TRUE, val |-> s]

\* os.environ.get(name, default)
environ_get(env, default) == IF env.present THEN env.val ELSE default

\* str.lower() on the code points the environment values are drawn from
\* (ASCII: 'A'..'Z' map to 'a'..'z', everything else is kept)
lower_char(c) == IF c \in 65..90 THEN c + 32 ELSE c
lower(s) == [i \in 1..Len(s) |-> lower_char(s[i])]

\* the tuple ("1", "true", "yes")
TruthyStrings == {<<49>>, <<116, 114, 117, 101>>, <<121, 101, 115>>}

\* the comparison without .lower()
strict_mode_env_case_sensitive(env) == environ_get(env, <<>>) \in TruthyStrings

\* os.environ.get("LLM_SANITIZE_STRICT", "").lower() in ("1", "true", "yes")
strict_mode_env(env) == lower(environ_get(env, <<>>)) \in TruthyStrings

----------------------------------------------------------------------------
(* sanitize_unicode, sanitize.py lines 63-100 *)

\* removing from a list of characters while iterating over it: the character
\* after each removed one is never examined
RECURSIVE remove_while_iterating(_, _)
remove_while_iterating(s, remove) ==
    IF s = <<>> THEN <<>>
    ELSE IF s[1] \notin remove
    THEN <<s[1]>> \o remove_while_iterating(Tail(s), remove)
    ELSE IF Len(s) = 1 THEN <<>>
    ELSE <<s[2]>> \o remove_while_iterating(SubSeq(s, 3, Len(s)), remove)

join_filter_remove_while_iterating(text, chars_to_remove) ==
    IF text.kind = "str"
    THEN Return(StrVal(remove_while_iterating(text.val, chars_to_remove)))
    ELSE Raise

\* "".join(c for c in text if ord(c) not in chars_to_remove); iterating a
\* value that is not a str of characters raises TypeError
join_filter(text, chars_to_remove) ==
    IF text.kind = "str"
    THEN Return(StrVal(SelectSeq(text.val, LAMBDA c : c \notin chars_to_remove)))
    ELSE Raise

\* the environment looked up on every call instead of the cached global
effective_strict_live_lookup(strict) ==
    IF strict_mode_env(environ) THEN TRUE ELSE strict

\* the value of the local `strict` at line 99
effective_strict(strict) == IF _STRICT_MODE_ENV THEN TRUE ELSE strict

\* the local chars_to_remove, line 99
chars_to_remove(strict) ==
    IF effective_strict(strict) THEN _STRICT_REMOVE ELSE _ALWAYS_REMOVE

\* the function without its isinstance(text, str) guard
sanitize_unicode_unguarded(text, strict) ==
    IF text.kind = "none" THEN Return(NoneVal)
    ELSE IF text.kind = "str" /\ text.val = <<>> THEN Return(text)
    ELSE join_filter(text, chars_to_remove(strict))

sanitize_unicode(text, strict) ==
    IF text.kind = "none" THEN Return(NoneVal)
    ELSE IF text.kind # "str" THEN Return(text)
    ELSE IF text.val = <<>> THEN Return(text)
    ELSE join_filter(text, chars_to_remove(strict))

----------------------------------------------------------------------------
(* The heap: lists, tuples and dicts *)

\* a container: its type and its items in order; a dict's items are its
\* entries [key, value] in insertion order
Container(kind, items) == [kind |-> kind, items |-> items]
Entry(k, v) == [key |-> k, value |-> v]

IsRef(v) == v.kind = "ref"
Deref(h, v) == h[v.val[1]]
IsInstance(h, v, kind) == IsRef(v) /\ Deref(h, v).kind = kind

\* a new object is appended to the heap; its reference is its index
Alloc(h, object) == [heap |-> Append(h, object), ref |-> Ref(Len(h) + 1)]

\* Python's == on the values a dict key can be: leaves compare by value,
\* tuples element by element
RECURSIVE PyEq(_, _, _)
PyEq(h, a, b) ==
    IF ~IsRef(a) \/ ~IsRef(b) THEN a = b
    ELSE LET oa == Deref(h, a)
             ob == Deref(h, b)
         IN  /\ oa.kind = ob.kind
             /\ oa.kind = "tuple"
             /\ Len(oa.items) = Len(ob.items)
             /\ \A i \in 1..Len(oa.items) : PyEq(h, oa.items[i], ob.items[i])

\* d.setdefault(k, v): a key already present keeps its first value
dict_setdefault(h, entries, k, v) ==
    IF \E i \in 1..Len(entries) : PyEq(h, entries[i].key, k)
    THEN entries
    ELSE Append(entries, Entry(k, v))

\* d[k] = v on the entries of a dict under construction: a key equal to one
\* already present keeps that entry's place and key and replaces its value
dict_setitem(h, entries, k, v) ==
    IF \E i \in 1..Len(entries) : PyEq(h, entries[i].key, k)
    THEN [i \in 1..Len(entries) |->
             IF PyEq(h, entries[i].key, k)
             THEN Entry(entries[i].key, v)
             ELSE entries[i]]
    ELSE Append(entries, Entry(k, v))

----------------------------------------------------------------------------
(* sanitize_dict, sanitize.py lines 103-121 *)

\* the outcome of a call that may allocate: the heap after it as well
WalkReturn(h, v) == [raised |-> FALSE, ret |-> v, heap |-> h]
WalkRaise(h) == [raised |-> TRUE, ret |-> NoneVal, heap |-> h]

RECURSIVE sanitize_dict(_, _), walk_items(_, _, _, _), walk_entries(_, _, _, _)
RECURSIVE walk_entries_values_only(_, _, _, _)

\* {k: sanitize_dict(v) for k, v in obj.items()}: the keys left as they are
walk_entries_values_only(h, entries, i, acc) ==
    IF i > Len(entries) THEN [raised |-> FALSE, out |-> acc, heap |-> h]
    ELSE LET v == sanitize_dict(h, entries[i].value)
         IN  IF v.raised THEN [raised |-> TRUE, out |-> acc, heap |-> v.heap]
             ELSE walk_entries_values_only(
                      v.heap, entries, i + 1,
                      dict_setitem(v.heap, acc, entries[i].key, v.ret))

\* [sanitize_dict(item) for item in obj], from item i on, acc the items so far
walk_items(h, items, i, acc) ==
    IF i > Len(items) THEN [raised |-> FALSE, out |-> acc, heap |-> h]
    ELSE LET r == sanitize_dict(h, items[i])
         IN  IF r.raised THEN [raised |-> TRUE, out |-> acc, heap |-> r.heap]
             ELSE walk_items(r.heap, items, i + 1, Append(acc, r.ret))

\* {sanitize_dict(k): sanitize_dict(v) for k, v in obj.items()}
walk_entries(h, entries, i, acc) ==
    IF i > Len(entries) THEN [raised |-> FALSE, out |-> acc, heap |-> h]
    ELSE LET k == sanitize_dict(h, entries[i].key)
         IN  IF k.raised THEN [raised |-> TRUE, out |-> acc, heap |-> k.heap]
             ELSE LET v == sanitize_dict(k.heap, entries[i].value)
                  IN  IF v.raised
                      THEN [raised |-> TRUE, out |-> acc, heap |-> v.heap]
                      ELSE walk_entries(v.heap, entries, i + 1,
                                        dict_setitem(v.heap, acc, k.ret, v.ret))

\* a list or dict sanitized in place: its items are overwritten and the
\* argument itself is returned
walk_container_in_place(h, obj, kind) ==
    LET r == IF kind = "dict"
             THEN walk_entries(h, Deref(h, obj).items, 1, <<>>)
             ELSE walk_items(h, Deref(h, obj).items, 1, <<>>)
    IN  IF r.raised THEN WalkRaise(r.heap)
        ELSE IF kind = "tuple"
        THEN LET a == Alloc(r.heap, Container(kind, r.out))
             IN  WalkReturn(a.heap, a.ref)
        ELSE WalkReturn([r.heap EXCEPT ![obj.val[1]] = Container(kind, r.out)], obj)

\* the three container branches build a new container of the same type
walk_container(h, obj, kind) ==
    LET r == IF kind = "dict"
             THEN walk_entries(h, Deref(h, obj).items, 1, <<>>)
             ELSE walk_items(h, Deref(h, obj).items, 1, <<>>)
    IN  IF r.raised THEN WalkRaise(r.heap)
        ELSE LET a == Alloc(r.heap, Container(kind, r.out))
             IN  WalkReturn(a.heap, a.ref)

sanitize_dict(h, obj) ==
    IF obj.kind = "str"
    THEN LET r == sanitize_unicode(obj, FALSE)
         IN  IF r.raised THEN WalkRaise(h) ELSE WalkReturn(h, r.ret)
    ELSE IF IsInstance(h, obj, "dict") THEN walk_container(h, obj, "dict")
    ELSE IF IsInstance(h, obj, "list") THEN walk_container(h, obj, "list")
    ELSE IF IsInstance(h, obj, "tuple") THEN walk_container(h, obj, "tuple")
    ELSE WalkReturn(h, obj)

----------------------------------------------------------------------------
(* Inputs *)

\* values of LLM_SANITIZE_STRICT: unset, "", "1", "True", "YES", "0", "on"
EnvValues ==
    {Unset, EnvSet(<<>>), EnvSet(<<49>>), EnvSet(<<84, 114, 117, 101>>),
     EnvSet(<<89, 69, 83>>), EnvSet(<<48>>), EnvSet(<<111, 110>>)}

\* code points texts are built from: 'A', ZERO WIDTH JOINER, RIGHT-TO-LEFT
\* OVERRIDE, TAG LATIN CAPITAL LETTER A, the last code point of the Tag block
\* and the first one past it
Alphabet == {\h41, \h200D, \h202E, \hE0041, \hE007F, \hE0080}

\* code points around every member of the removal sets, for one-character texts
Neighbourhood ==
    (\h2009 .. \h200F) \cup (\h2028 .. \h2030) \cup (\h2064 .. \h206B)
    \cup (\hFEFD .. \hFF01) \cup (\hDFFFE .. \hE0081)

\* the sequences over S of length at most n (none when n is negative)
SeqsUpTo(S, n) == UNION {[1..k -> S] : k \in 0..n}

Texts == SeqsUpTo(Alphabet, MaxLen) \cup {<<c>> : c \in Neighbourhood}

\* arguments of a call that need no container: None, an int, a text
PlainArgs == {NoneVal, IntVal(7)} \cup {StrVal(t) : t \in Texts}

\* the leaves containers are built from: None, "a", "a" + U+E0041, "a" + U+200B
Leaves ==
    {NoneVal, StrVal(<<\h61>>), StrVal(<<\h61, \hE0041>>), StrVal(<<\h61, \h200B>>)}

Refs(h) == {Ref(i) : i \in 1..Len(h)}

\* size of the heap: one node per container, one per item of a list or
\* tuple, two (key and value) per entry of a dict
Slots(object) == IF object.kind = "dict" THEN 2 * Len(object.items) ELSE Len(object.items)

RECURSIVE Nodes(_)
Nodes(h) ==
    IF h = <<>> THEN 0
    ELSE 1 + Slots(h[Len(h)]) + Nodes(SubSeq(h, 1, Len(h) - 1))

\* a value a dict accepts as a key: a leaf, or a tuple of such values
RECURSIVE Hashable(_, _)
Hashable(h, v) ==
    \/ ~IsRef(v)
    \/ /\ Deref(h, v).kind = "tuple"
       /\ \A i \in 1..Len(Deref(h, v).items) : Hashable(h, Deref(h, v).items[i])

----------------------------------------------------------------------------
(* State *)

NoCall ==
    [op |-> "none", arg |-> NoneVal, strict |-> FALSE, mode |-> "none",
     raised |-> FALSE, ret |-> NoneVal, pre |-> <<>>, env |-> Unset,
     chained |-> FALSE, prev_arg |-> NoneVal, prev_strict |-> FALSE]

\* the mode a sanitize_unicode call ran in: the local `strict` at line 99,
\* "none" when the call returned before it
ModeOf(text, strict) ==
    IF text.kind # "str" \/ text.val = <<>> THEN "none"
    ELSE IF effective_strict(strict) THEN "strict" ELSE "default"

Init ==
    /\ environ \in EnvValues
    /\ loaded = FALSE
    /\ _STRICT_MODE_ENV = FALSE
    /\ env_at_load = Unset
    /\ heap = <<>>
    /\ last = NoCall

----------------------------------------------------------------------------
(* Actions *)

\* os.environ["LLM_SANITIZE_STRICT"] = v, or os.environ.pop(...): the process
\* environment changes (test_sanitize.py lines 145-152)
SetEnv ==
    \E v \in EnvValues :
        /\ v # environ
        /\ environ' = v
        /\ UNCHANGED <<loaded, _STRICT_MODE_ENV, env_at_load, heap, last>>

\* import llm.sanitize: the module body runs once, line 52 reads the variable
Load ==
    /\ ~loaded
    /\ loaded' = TRUE
    /\ _STRICT_MODE_ENV' = strict_mode_env(environ)
    /\ env_at_load' = environ
    /\ UNCHANGED <<environ, heap, last>>

\* the record of a sanitize_unicode(text, strict) call
UnicodeCall(text, strict, chained) ==
    LET r == sanitize_unicode(text, strict)
    IN  [op |-> "sanitize_unicode", arg |-> text, strict |-> strict,
         mode |-> ModeOf(text, strict), raised |-> r.raised, ret |-> r.ret,
         pre |-> heap, env |-> environ, chained |-> chained,
         prev_arg |-> IF chained THEN last.arg ELSE NoneVal,
         prev_strict |-> IF chained THEN last.strict ELSE FALSE]

\* the record of a sanitize_dict(obj) call that ended with outcome r
DictCall(obj, r) ==
    [op |-> "sanitize_dict", arg |-> obj, strict |-> FALSE,
     mode |-> ModeOf(obj, FALSE), raised |-> r.raised, ret |-> r.ret,
     pre |-> heap, env |-> environ, chained |-> FALSE, prev_arg |-> NoneVal,
     prev_strict |-> FALSE]

\* sanitize_unicode(text, strict) on None, a number or a text
CallSanitizeUnicode ==
    \E text \in PlainArgs, strict \in BOOLEAN :
        /\ loaded
        /\ last.op = "none"
        /\ last' = UnicodeCall(text, strict, FALSE)
        /\ UNCHANGED <<environ, loaded, _STRICT_MODE_ENV, env_at_load, heap>>

\* sanitize_unicode(result, strict) on what the previous call returned
CallSanitizeUnicodeAgain ==
    \E strict \in BOOLEAN :
        /\ loaded
        /\ last.op = "sanitize_unicode"
        /\ ~last.raised
        /\ last' = UnicodeCall(last.ret, strict, TRUE)
        /\ UNCHANGED <<environ, loaded, _STRICT_MODE_ENV, env_at_load, heap>>

\* sanitize_dict(obj) on None, a number or a text
CallSanitizeDict ==
    \E obj \in PlainArgs :
        /\ loaded
        /\ last.op = "none"
        /\ LET r == sanitize_dict(heap, obj)
           IN  /\ last' = DictCall(obj, r)
               /\ heap' = r.heap
        /\ UNCHANGED <<environ, loaded, _STRICT_MODE_ENV, env_at_load>>

\* the caller is done with the last call's result: the containers the call
\* allocated are garbage, and the next call starts afresh
Discard ==
    /\ last.op # "none"
    /\ last' = NoCall
    /\ heap' = last.pre
    /\ UNCHANGED <<environ, loaded, _STRICT_MODE_ENV, env_at_load>>

Next ==
    \/ Load
    \/ CallSanitizeUnicode
    \/ CallSanitizeUnicodeAgain
    \/ CallSanitizeDict
    \/ Discard

Spec == Init /\ [][Next]_vars

----------------------------------------------------------------------------
(* The environment changing under a loaded module *)

\* "A" + U+200B, U+E0041 + U+200B, "A"
EnvTexts == {<<\h41, \h200B>>, <<\hE0041, \h200B>>, <<\h41>>}

\* sanitize_unicode(text, strict) while the environment may have changed
EnvSanitizeUnicode ==
    \E t \in EnvTexts, strict \in BOOLEAN :
        /\ loaded
        /\ last.op = "none"
        /\ last' = UnicodeCall(StrVal(t), strict, FALSE)
        /\ UNCHANGED <<environ, loaded, _STRICT_MODE_ENV, env_at_load, heap>>

\* sanitize_dict(text) while the environment may have changed
EnvSanitizeDict ==
    \E t \in EnvTexts :
        /\ loaded
        /\ last.op = "none"
        /\ LET r == sanitize_dict(heap, StrVal(t))
           IN  /\ last' = DictCall(StrVal(t), r)
               /\ heap' = r.heap
        /\ UNCHANGED <<environ, loaded, _STRICT_MODE_ENV, env_at_load>>

NextEnv ==
    \/ SetEnv
    \/ Load
    \/ EnvSanitizeUnicode
    \/ EnvSanitizeDict
    \/ Discard

SpecEnv == Init /\ [][NextEnv]_vars

----------------------------------------------------------------------------
(* The walker on containers *)

\* the process starts with the variable unset or set to "1"
InitWalk ==
    /\ environ \in {Unset, EnvSet(<<49>>)}
    /\ loaded = FALSE
    /\ _STRICT_MODE_ENV = FALSE
    /\ env_at_load = Unset
    /\ heap = <<>>
    /\ last = NoCall

\* item slots left for one more container
Room == MaxNodes - Nodes(heap) - 1

\* the caller builds a list or a tuple of leaves and earlier containers
NewSequence ==
    \E kind \in {"list", "tuple"} :
        \E items \in SeqsUpTo(Leaves \cup Refs(heap), Room) :
            /\ loaded
            /\ last.op = "none"
            /\ heap' = Append(heap, Container(kind, items))
            /\ UNCHANGED <<environ, loaded, _STRICT_MODE_ENV, env_at_load, last>>

\* the entries a dict can hold: hashable keys, no two of them equal
DictEntries(h, n) ==
    LET keys == {k \in Leaves \cup Refs(h) : Hashable(h, k)}
        entry == {Entry(k, v) : k \in keys, v \in Leaves \cup Refs(h)}
    IN  {es \in SeqsUpTo(entry, n) :
            \A i, j \in 1..Len(es) : i # j => ~PyEq(h, es[i].key, es[j].key)}

\* the caller builds a dict
NewDict ==
    \E entries \in DictEntries(heap, Room \div 2) :
        /\ loaded
        /\ last.op = "none"
        /\ heap' = Append(heap, Container("dict", entries))
        /\ UNCHANGED <<environ, loaded, _STRICT_MODE_ENV, env_at_load, last>>

\* sanitize_dict(obj) on a leaf or a container
WalkSanitizeDict ==
    \E obj \in Leaves \cup Refs(heap) :
        /\ loaded
        /\ last.op = "none"
        /\ LET r == sanitize_dict(heap, obj)
           IN  /\ last' = DictCall(obj, r)
               /\ heap' = r.heap
        /\ UNCHANGED <<environ, loaded, _STRICT_MODE_ENV, env_at_load>>

\* sanitize_unicode(text, strict) on None, a number, "", a text or a container
WalkSanitizeUnicode ==
    \E text \in {NoneVal, IntVal(7), StrVal(<<>>), StrVal(<<\h61, \h200B>>)}
                    \cup Refs(heap),
       strict \in BOOLEAN :
        /\ loaded
        /\ last.op = "none"
        /\ last' = UnicodeCall(text, strict, FALSE)
        /\ UNCHANGED <<environ, loaded, _STRICT_MODE_ENV, env_at_load, heap>>

NextWalk ==
    \/ Load
    \/ NewSequence
    \/ NewDict
    \/ WalkSanitizeDict
    \/ WalkSanitizeUnicode
    \/ Discard

SpecWalk == InitWalk /\ [][NextWalk]_vars

----------------------------------------------------------------------------
(* Vocabulary of the properties, stated apart from the code's definitions *)

\* the Tag block, U+E0000..U+E007F
InTagBlock(c) == c >= \hE0000 /\ c <= \hE007F

\* the zero-width characters and the BiDi controls U+202A..U+202E, U+2066..U+2069
IsConditional(c) ==
    \/ c \in {\h200B, \h200C, \h200D, \hFEFF}
    \/ (c >= \h202A /\ c <= \h202E)
    \/ (c >= \h2066 /\ c <= \h2069)

\* membership in the active removal set
IsRemoved(c, strict) == InTagBlock(c) \/ (strict /\ IsConditional(c))

\* out is t with the removed characters struck out: the kept positions of t,
\* in order, are exactly the positions of out
IsKeptSubsequence(t, out, strict) ==
    LET keep == {i \in 1..Len(t) : ~IsRemoved(t[i], strict)}
    IN  /\ Len(out) = Cardinality(keep)
        /\ \A i \in keep : out[Cardinality({j \in keep : j <= i})] = t[i]

Occurrences(t, c) == Cardinality({i \in 1..Len(t) : t[i] = c})

\* the values of the variable whose lower-cased form is "1", "true" or "yes",
\* among those the environment takes here: "1", "True", "YES"
TruthyEnvValues ==
    {EnvSet(<<49>>), EnvSet(<<84, 114, 117, 101>>), EnvSet(<<89, 69, 83>>)}

IsTextCall == last.op # "none" /\ last.arg.kind = "str" /\ last.arg.val # <<>>

----------------------------------------------------------------------------
(* The filter: claims C1, C2, C5, C6, under Spec *)

\* C1: sanitize_unicode(t, strict) returns exactly the subsequence of t made
\* of the characters outside the active removal set (the Tag block when not
\* strict, the Tag block plus the zero-width and BiDi characters when strict),
\* in their order and multiplicity; U+E0000 and U+E007F are removed and
\* U+DFFFF and U+E0080 are kept in both modes.
C1_ReturnsKeptSubsequence ==
    (last.op = "sanitize_unicode" /\ last.arg.kind = "str") =>
        /\ ~last.raised
        /\ last.ret.kind = "str"
        /\ IsKeptSubsequence(last.arg.val, last.ret.val, last.mode = "strict")
        /\ \A c \in {\hE0000, \hE007F} : Occurrences(last.ret.val, c) = 0
        /\ \A c \in {\hDFFFF, \hE0080} :
               Occurrences(last.ret.val, c) = Occurrences(last.arg.val, c)

\* sanitize_unicode("A" U+E007F U+200D) in default mode returned "A" U+200D
C1_Witness ==
    /\ last.op = "sanitize_unicode"
    /\ last.arg = StrVal(<<\h41, \hE007F, \h200D>>)
    /\ last.mode = "default"
    /\ last.ret = StrVal(<<\h41, \h200D>>)

\* C2: a call on non-empty text runs strict iff the caller passed strict=True
\* or the cached flag is set, and the flag is set exactly when the variable's
\* value at import, lower-cased, is "1", "true" or "yes"; with the flag set a
\* strict=False call still removes the zero-width and BiDi characters, and
\* otherwise the caller's argument alone decides.
C2_EffectiveMode ==
    /\ loaded => (_STRICT_MODE_ENV <=> env_at_load \in TruthyEnvValues)
    /\ (last.op = "sanitize_unicode" /\ IsTextCall) =>
           LET flag == env_at_load \in TruthyEnvValues
           IN  /\ (last.mode = "strict") <=> (last.strict \/ flag)
               /\ (last.strict \/ flag) =>
                      \A i \in 1..Len(last.ret.val) : ~IsConditional(last.ret.val[i])
               /\ ~(last.strict \/ flag) =>
                      \A i \in 1..Len(last.arg.val) :
                          IsConditional(last.arg.val[i]) =>
                              Occurrences(last.ret.val, last.arg.val[i])
                                  = Occurrences(last.arg.val, last.arg.val[i])

\* imported under LLM_SANITIZE_STRICT=YES, sanitize_unicode("A" U+200D,
\* strict=False) returned "A"
C2_Witness ==
    /\ env_at_load = EnvSet(<<89, 69, 83>>)
    /\ last.op = "sanitize_unicode"
    /\ ~last.strict
    /\ last.arg = StrVal(<<\h41, \h200D>>)
    /\ last.ret = StrVal(<<\h41>>)

\* C5: sanitize_unicode is idempotent: applied again in the same mode to its
\* own result, it returns that result unchanged.
C5_Idempotent ==
    (last.op = "sanitize_unicode" /\ last.chained
        /\ last.strict = last.prev_strict) =>
        /\ ~last.raised
        /\ last.ret = last.arg

\* a second strict pass over the result of sanitizing U+E0041 U+202E "A"
C5_Witness ==
    /\ last.op = "sanitize_unicode"
    /\ last.chained
    /\ last.strict /\ last.prev_strict
    /\ last.prev_arg = StrVal(<<\hE0041, \h202E, \h41>>)
    /\ last.arg = StrVal(<<\h41>>)
    /\ last.ret = StrVal(<<\h41>>)

\* C6: with the environment flag unset, sanitizing strictly the result of a
\* non-strict pass over t gives sanitize_unicode(t, strict=True), which is
\* that non-strict result with every zero-width and BiDi character deleted.
C6_StrictAfterDefault ==
    (last.op = "sanitize_unicode" /\ last.chained /\ ~_STRICT_MODE_ENV
        /\ ~last.prev_strict /\ last.strict /\ last.prev_arg.kind = "str") =>
        /\ ~last.raised
        /\ last.ret = sanitize_unicode(last.prev_arg, TRUE).ret
        /\ LET keep == {i \in 1..Len(last.arg.val) : ~IsConditional(last.arg.val[i])}
           IN  /\ Len(last.ret.val) = Cardinality(keep)
               /\ \A i \in keep :
                      last.ret.val[Cardinality({j \in keep : j <= i})] = last.arg.val[i]

\* t = U+E0041 U+200D "A": the non-strict pass gave U+200D "A", the strict
\* pass over that gave "A"
C6_Witness ==
    /\ ~_STRICT_MODE_ENV
    /\ last.op = "sanitize_unicode"
    /\ last.chained
    /\ ~last.prev_strict /\ last.strict
    /\ last.prev_arg = StrVal(<<\hE0041, \h200D, \h41>>)
    /\ last.arg = StrVal(<<\h200D, \h41>>)
    /\ last.ret = StrVal(<<\h41>>)

----------------------------------------------------------------------------
(* The cached environment flag: claims C3, C4, under SpecEnv *)

C4_EnvSetEnablesStrict ==
    (last.op = "sanitize_unicode" /\ last.arg.kind = "str"
        /\ ~last.strict /\ last.env = EnvSet(<<49>>)) =>
        Occurrences(last.ret.val, \h200B) = 0

----------------------------------------------------------------------------
(* The walker: claims C7, C8, C9, C10, under SpecWalk *)

\* two keys that sanitize to equal keys
RECURSIVE SameImage(_, _, _)
SameImage(h, a, b) ==
    IF ~IsRef(a) \/ ~IsRef(b)
    THEN /\ ~IsRef(a) /\ ~IsRef(b)
         /\ sanitize_unicode(a, FALSE).ret = sanitize_unicode(b, FALSE).ret
    ELSE LET oa == Deref(h, a)
             ob == Deref(h, b)
         IN  /\ oa.kind = ob.kind
             /\ Len(oa.items) = Len(ob.items)
             /\ \A i \in 1..Len(oa.items) : SameImage(h, oa.items[i], ob.items[i])

Collides(h, entries) ==
    \E i, j \in 1..Len(entries) : i # j /\ SameImage(h, entries[i].key, entries[j].key)

\* b (in heap hb) is a (in heap ha) with every string replaced by what
\* sanitize_unicode makes of it in the environment-resolved mode, and every
\* container replaced by one of the same type
RECURSIVE Sanitized(_, _, _, _)
Sanitized(ha, hb, a, b) ==
    IF a.kind = "str"
    THEN /\ b.kind = "str"
         /\ IsKeptSubsequence(a.val, b.val, env_at_load \in TruthyEnvValues)
    ELSE IF ~IsRef(a) THEN b = a
    ELSE /\ IsRef(b)
         /\ LET oa == Deref(ha, a)
                ob == Deref(hb, b)
            IN  /\ ob.kind = oa.kind
                /\ IF oa.kind # "dict"
                   THEN /\ Len(ob.items) = Len(oa.items)
                        /\ \A i \in 1..Len(oa.items) :
                               Sanitized(ha, hb, oa.items[i], ob.items[i])
                   ELSE \* every key's image is a key of the result
                        /\ \A j \in 1..Len(oa.items) : \E i \in 1..Len(ob.items) :
                               Sanitized(ha, hb, oa.items[j].key, ob.items[i].key)
                        \* every entry of the result is the image of an entry
                        /\ \A i \in 1..Len(ob.items) : \E j \in 1..Len(oa.items) :
                               /\ Sanitized(ha, hb, oa.items[j].key, ob.items[i].key)
                               /\ Sanitized(ha, hb, oa.items[j].value, ob.items[i].value)
                        \* and entry by entry when no two keys collide
                        /\ ~Collides(ha, oa.items) =>
                               /\ Len(ob.items) = Len(oa.items)
                               /\ \A i \in 1..Len(oa.items) :
                                      /\ Sanitized(ha, hb, oa.items[i].key, ob.items[i].key)
                                      /\ Sanitized(ha, hb, oa.items[i].value, ob.items[i].value)

\* C7: sanitize_dict returns a value of the same shape in which every string
\* reachable as a dict key, dict value, list element or tuple element is the
\* sanitize_unicode of the original under the environment-resolved mode;
\* list length and tuple arity are kept, elements stay in place, and every
\* other leaf is returned unchanged.
C7_SameShapeSanitized ==
    last.op = "sanitize_dict" =>
        /\ ~last.raised
        /\ Sanitized(last.pre, heap, last.arg, last.ret)

\* sanitize_dict of a list or tuple whose first item is a one-entry dict with
\* key "a" U+E0041: the result holds a dict with the key "a"
C7_Witness ==
    /\ last.op = "sanitize_dict"
    /\ IsRef(last.arg) /\ IsRef(last.ret)
    /\ Deref(last.pre, last.arg).kind \in {"list", "tuple"}
    /\ Len(Deref(last.pre, last.arg).items) >= 1
    /\ IsInstance(last.pre, Deref(last.pre, last.arg).items[1], "dict")
    /\ LET din == Deref(last.pre, Deref(last.pre, last.arg).items[1])
           dout == Deref(heap, Deref(heap, last.ret).items[1])
       IN  /\ Len(din.items) = 1
           /\ din.items[1].key = StrVal(<<\h61, \hE0041>>)
           /\ din.items[1].value = StrVal(<<\h61, \h200B>>)
           /\ dout.kind = "dict"
           /\ dout.items = <<Entry(StrVal(<<\h61>>), StrVal(<<\h61, \h200B>>))>>

\* C8: neither function raises on None, a non-text value, a text or a finite
\* acyclic nesting of containers; sanitize_unicode(None, m) is None,
\* sanitize_unicode(v, m) is v itself for every non-text v, and
\* sanitize_unicode("", m) is "", in every mode and under either setting of
\* the environment flag.
C8_NeverRaisesPassesThrough ==
    /\ ~last.raised
    /\ last.op = "sanitize_unicode" =>
           /\ last.arg.kind = "none" => last.ret = NoneVal
           /\ last.arg.kind # "str" => last.ret = last.arg
           /\ last.arg = StrVal(<<>>) => last.ret = StrVal(<<>>)

\* with the flag set, sanitize_unicode(d, strict=True) on a dict d holding a
\* removable character returned d itself
C8_Witness ==
    /\ _STRICT_MODE_ENV
    /\ last.op = "sanitize_unicode"
    /\ last.strict
    /\ IsInstance(heap, last.arg, "dict")
    /\ \E i \in 1..Len(Deref(heap, last.arg).items) :
           Deref(heap, last.arg).items[i].value = StrVal(<<\h61, \hE0041>>)
    /\ last.ret = last.arg
    /\ ~last.raised

\* the last entry whose key sanitizes to the same key as entry j's
LastWithSameImage(h, entries, j) ==
    CHOOSE m \in 1..Len(entries) :
        /\ SameImage(h, entries[m].key, entries[j].key)
        /\ \A n \in 1..Len(entries) :
               SameImage(h, entries[n].key, entries[j].key) => n <= m

\* C9: when two distinct keys of the argument sanitize to the same key, no
\* error is raised, the result holds that key once, mapped to the sanitized
\* value of the colliding entry that comes last in the argument, the result
\* has fewer entries, and every other entry keeps its key-value association.
C9_LastWriteWins ==
    (last.op = "sanitize_dict" /\ IsInstance(last.pre, last.arg, "dict")
        /\ Collides(last.pre, Deref(last.pre, last.arg).items)) =>
        /\ ~last.raised
        /\ IsInstance(heap, last.ret, "dict")
        /\ LET in == Deref(last.pre, last.arg).items
               out == Deref(heap, last.ret).items
           IN  /\ Len(out) < Len(in)
               /\ \A j \in 1..Len(in) :
                      LET at == {i \in 1..Len(out) :
                                    Sanitized(last.pre, heap, in[j].key, out[i].key)}
                          w == LastWithSameImage(last.pre, in, j)
                      IN  /\ Cardinality(at) = 1
                          /\ \A i \in at :
                                 Sanitized(last.pre, heap, in[w].value, out[i].value)

\* sanitize_dict({"a" U+E0041: "a" U+E0041, "a": None}) returned {"a": None}
C9_Witness ==
    /\ last.op = "sanitize_dict"
    /\ IsInstance(last.pre, last.arg, "dict")
    /\ Deref(last.pre, last.arg).items =
           <<Entry(StrVal(<<\h61, \hE0041>>), StrVal(<<\h61, \hE0041>>)),
             Entry(StrVal(<<\h61>>), NoneVal)>>
    /\ IsInstance(heap, last.ret, "dict")
    /\ Deref(heap, last.ret).items = <<Entry(StrVal(<<\h61>>), NoneVal)>>

\* the containers reachable from a value
RECURSIVE Reachable(_, _)
Reachable(h, v) ==
    IF ~IsRef(v) THEN {}
    ELSE LET o == Deref(h, v)
         IN  {v.val[1]} \cup
             UNION {IF o.kind = "dict"
                    THEN Reachable(h, o.items[i].key) \cup Reachable(h, o.items[i].value)
                    ELSE Reachable(h, o.items[i]) : i \in 1..Len(o.items)}

\* C10: sanitize_dict leaves its argument unchanged: every container that
\* existed before the call holds the keys, values and elements it held, and
\* the lists and dicts of the result are newly built ones.
C10_ArgumentUnchanged ==
    last.op = "sanitize_dict" =>
        /\ Len(heap) >= Len(last.pre)
        /\ \A i \in 1..Len(last.pre) : heap[i] = last.pre[i]
        /\ \A i \in Reachable(heap, last.ret) :
               heap[i].kind \in {"list", "dict"} => i > Len(last.pre)

\* sanitize_dict(["a" U+E0041]) returned a new list ["a"] and the argument
\* still holds "a" U+E0041
C10_Witness ==
    /\ last.op = "sanitize_dict"
    /\ IsInstance(last.pre, last.arg, "list")
    /\ Deref(heap, last.arg).items = <<StrVal(<<\h61, \hE0041>>)>>
    /\ IsRef(last.ret)
    /\ last.ret # last.arg
    /\ Deref(heap, last.ret) = Container("list", <<StrVal(<<\h61>>)>>)

====
